---------------------------- MODULE Spec2Model ----------------------------
(***************************************************************************)
(* Trick-taking game-state engine of the card-game platform:               *)
(*   - the Redux game slice (store/slices/gameSlice),                      *)
(*   - the Ninety-Nine variant definition (games/ninetyNine),              *)
(*   - the shared deal / follow-suit / trick-winner / score utilities      *)
(*     (utils/gameUtils).                                                  *)
(* Seats are 0-based as in the code; a player's id is its seat number, so  *)
(* playerIds.indexOf(id) = id.  A card id is a positive integer that is    *)
(* unique per created deck (uuidv4): the card of deck number g whose        *)
(* position.zIndex is z has the id g * IdsPerDeck + z + 1.                 *)
(***************************************************************************)
EXTENDS Integers, Sequences, FiniteSets, TLC

VARIABLES state, decks, last

vars == <<state, decks, last>>

----------------------------------------------------------------------------
(* Bounds of the model *)

\* ranks per suit in the deck of createDeck (13 in the code)
NumRanks == 2
\* ranks per suit in the deck of createNinetyNineDeck
NNNumRanks == 3
\* cards dealt to each player by the variant's setupRound (12 in the code)
CardsPerPlayer == 3
\* cards dealt to each player by the slice and its thunk (12 in the code)
SliceCardsPerPlayer == 2
\* largest number of players of a Ninety-Nine game explored (5 in the code)
MaxPlayers == 3
\* number of shuffle outcomes explored
NumShuffles == 1
\* number of decks created in one run: actions are dispatched until the
\* last of them has been dealt
MaxDecks == 2
\* gameSettings.maxRounds passed to createInitialState (9 by default)
NNMaxRounds == 3
\* gameSettings.maxTricks of the slice (9 in the code)
SliceMaxTricks == 1
\* gameSettings.maxRounds of the slice (3 in the code)
SliceMaxRounds == 2

(* Program constants *)
NumSuits == 4
MinPlayers == 3
ScoreLimit == 100
MaxBidCards == 3
TrickPoints == 10
BidBonus == 20
InitialSlots == 3

\* null and undefined where a suit, a phase or an action name is expected
Null == "null"
Undefined == "undefined"
\* null where a card id is expected, and an array hole left by an assignment
\* past the end of the slot array
NullId == 0
HoleId == -1
\* null where a player id is expected
NoPlayer == -1
\* what entities.cards[id] yields for an id it does not hold, and what
\* reading an array hole yields
UndefinedCard == [id |-> NullId, suit |-> Undefined, rank |-> Undefined]
\* state.error = null
NoError == [type |-> Null, message |-> ""]

----------------------------------------------------------------------------
(* Cards *)

\* enum Suit, in declaration order
Suit == <<"HEARTS", "DIAMONDS", "CLUBS", "SPADES">>

\* enum Rank, in declaration order
Rank == <<"ACE", "KING", "QUEEN", "JACK", "TEN", "NINE", "EIGHT", "SEVEN",
          "SIX", "FIVE", "FOUR", "THREE", "TWO">>

\* the ranks a deck of the model holds are the first of this order, kept
\* in the order of the enum
RankPick == <<"ACE", "TWO", "QUEEN", "KING", "SEVEN", "JACK", "TEN", "NINE",
              "EIGHT", "SIX", "FIVE", "FOUR", "THREE">>

DeckRanks(numRanks) ==
  SelectSeq(Rank, LAMBDA r : \E i \in 1..numRanks : RankPick[i] = r)

\* Object.values(Rank).indexOf(rank)
RankIndex(rank) == (CHOOSE i \in 1..Len(Rank) : Rank[i] = rank) - 1

\* ids set aside for one deck: one per suit and rank of the enums
IdsPerDeck == NumSuits * Len(Rank)

getCardValue(rank) ==
  CASE rank = "ACE" -> 14
    [] rank = "KING" -> 13
    [] rank = "QUEEN" -> 12
    [] rank = "JACK" -> 11
    [] rank = "TEN" -> 10
    [] rank = "NINE" -> 9
    [] rank = "EIGHT" -> 8
    [] rank = "SEVEN" -> 7
    [] rank = "SIX" -> 6
    [] rank = "FIVE" -> 5
    [] rank = "FOUR" -> 4
    [] rank = "THREE" -> 3
    [] rank = "TWO" -> 2

\* position.zIndex of a card: suitIndex * Object.values(Rank).length + rankIndex
CardIndex(id) == (id - 1) % IdsPerDeck

\* the card record createDeck builds for an id
CardOf(id) ==
  [id |-> id,
   suit |-> Suit[(CardIndex(id) \div Len(Rank)) + 1],
   rank |-> Rank[(CardIndex(id) % Len(Rank)) + 1]]

\* the two nested forEach of createDeck over numRanks ranks per suit: every
\* suit x rank, suit-major, with fresh ids
DeckOf(g, numRanks) ==
  [k \in 1..(NumSuits * numRanks) |->
     g * IdsPerDeck
     + ((k - 1) \div numRanks) * Len(Rank)
     + RankIndex(DeckRanks(numRanks)[((k - 1) % numRanks) + 1]) + 1]

Reverse(s) == [i \in 1..Len(s) |-> s[Len(s) + 1 - i]]

Riffle(s) ==
  LET odd == SelectSeq([i \in 1..Len(s) |-> i], LAMBDA i : i % 2 = 1)
      even == SelectSeq([i \in 1..Len(s) |-> i], LAMBDA i : i % 2 = 0)
  IN [i \in 1..Len(s) |-> s[(odd \o even)[i]]]

Rotate(s, k) == [i \in 1..Len(s) |-> s[((i - 1 + k) % Len(s)) + 1]]

\* shuffleDeck: one of NumShuffles permutations of the deck
shuffleDeck(deck, sh) ==
  CASE sh = 1 -> Riffle(deck)
    [] sh = 2 -> Reverse(deck)
    [] sh = 3 -> deck
    [] OTHER -> Rotate(Riffle(deck), sh - 3)

Shuffles == 1..NumShuffles

\* createDeck: the shuffled deck number g
createDeck(g, sh) == shuffleDeck(DeckOf(g, NumRanks), sh)

SeqToSet(s) == {s[i] : i \in 1..Len(s)}

Without(s, ids) == SelectSeq(s, LAMBDA x : x \notin ids)

----------------------------------------------------------------------------
(* utils/gameUtils *)

\* the two nested loops of dealCards, k = i * numPlayers + j
RECURSIVE DealLoop(_, _, _, _, _)
DealLoop(deck, hands, k, numPlayers, cardsPerPlayer) ==
  IF k >= numPlayers * cardsPerPlayer THEN [deck |-> deck, hands |-> hands]
  ELSE IF Len(deck) = 0
       THEN DealLoop(deck, hands, k + 1, numPlayers, cardsPerPlayer)
       ELSE LET j == k % numPlayers
            IN DealLoop(SubSeq(deck, 1, Len(deck) - 1),
                        [hands EXCEPT ![j] = Append(@, deck[Len(deck)])],
                        k + 1, numPlayers, cardsPerPlayer)

dealCards(deck, numPlayers, cardsPerPlayer) ==
  LET dealt == DealLoop(deck, [j \in 0..(numPlayers - 1) |-> <<>>], 0,
                        numPlayers, cardsPerPlayer)
      rest == dealt.deck
  IN [hands |-> dealt.hands,
      remainingDeck |-> IF Len(rest) = 0 THEN rest
                        ELSE SubSeq(rest, 1, Len(rest) - 1),
      turnupCard |-> IF Len(rest) = 0 THEN NullId ELSE rest[Len(rest)]]

\* index of the first hand entry of the lead suit, Len+1 if there is none
FirstOfSuit(playerHand, leadSuit) ==
  IF \E i \in 1..Len(playerHand) :
       playerHand[i].suit = leadSuit
  THEN CHOOSE i \in 1..Len(playerHand) :
         /\ playerHand[i].suit = leadSuit
         /\ \A k \in 1..(i - 1) : playerHand[k].suit # leadSuit
  ELSE Len(playerHand) + 1

\* isValidPlay of gameUtils throws a TypeError when playerHand.some reads
\* .suit of an undefined entry before it finds a card of the lead suit
isValidPlayThrows(card, playerHand, leadSuit) ==
  /\ leadSuit \notin {Null, Undefined}
  /\ \E k \in 1..Len(playerHand) :
       k < FirstOfSuit(playerHand, leadSuit) /\ playerHand[k] = UndefinedCard

\* isValidPlay of gameUtils: card and the entries of playerHand are card
\* records, leadSuit a suit or Null/Undefined (both falsy)
isValidPlayUtil(card, playerHand, leadSuit) ==
  IF leadSuit \in {Null, Undefined} THEN TRUE
  ELSE LET hasLeadSuit == FirstOfSuit(playerHand, leadSuit) <= Len(playerHand)
       IN ~(hasLeadSuit /\ card.suit # leadSuit)

\* result of determineTrickWinner when it throws a TypeError
Thrown == -1

IsCard(x) == x # UndefinedCard

\* the loop of determineTrickWinner from slot i on (0-based); trick is a
\* sequence of card records or UndefinedCard; w is winnerIndex
RECURSIVE WinnerLoop(_, _, _, _)
WinnerLoop(trick, i, w, trumpSuit) ==
  IF i >= Len(trick) THEN w
  ELSE LET currentCard == trick[i + 1]
           winningCard == trick[w + 1]
       IN IF ~IsCard(currentCard)
          THEN WinnerLoop(trick, i + 1, w, trumpSuit)
          ELSE IF ~IsCard(winningCard) THEN Thrown
          ELSE IF currentCard.suit = trumpSuit /\ winningCard.suit # trumpSuit
          THEN WinnerLoop(trick, i + 1, i, trumpSuit)
          ELSE IF /\ currentCard.suit = winningCard.suit
                  /\ getCardValue(currentCard.rank) > getCardValue(winningCard.rank)
          THEN WinnerLoop(trick, i + 1, i, trumpSuit)
          ELSE WinnerLoop(trick, i + 1, w, trumpSuit)

\* determineTrickWinner without its trump branch
TrickWinnerIgnoringTrump(trick, leadSuit, trumpSuit) ==
  WinnerLoop(trick, 1, 0, Null)

determineTrickWinner(trick, leadSuit, trumpSuit) ==
  WinnerLoop(trick, 1, 0, trumpSuit)

\* calculatePlayerScore without the bonus for a bid
ScoreWithoutBidBonus(tricksWon, bidCards) == tricksWon * TrickPoints

calculatePlayerScore(tricksWon, bidCards) ==
  tricksWon * TrickPoints + (IF Len(bidCards) > 0 THEN BidBonus ELSE 0)

----------------------------------------------------------------------------
(* Game state shared by the slice and the variants *)

Seats(s) == 0..(s.numPlayers - 1)

\* whose state s is: a variant's state has a trump suit, the slice's has not
IsVariantState(s) == "trumpSuit" \in DOMAIN s

IsSliceState(s) ==
  /\ "trumpSuit" \notin DOMAIN s
  /\ "heartsPlayed" \notin DOMAIN s
  /\ "gamePhase" \in DOMAIN s

\* entities.cards[id]
Lookup(s, id) == IF id \in s.cards THEN CardOf(id) ELSE UndefinedCard

Hand(s, p) == s.players[p].handIds

HandCards(s, p) == [i \in 1..Len(Hand(s, p)) |-> Lookup(s, Hand(s, p)[i])]

\* Array(n).fill(null)
EmptySlots(n) == [i \in 1..n |-> NullId]

\* currentTrickCardIds.every(id => id !== null): every skips array holes
AllPlayed(slots) == \A i \in 1..Len(slots) : slots[i] # NullId

\* currentTrickCardIds[idx] = id; an index past the end extends the array
\* and leaves holes in between
SetSlot(slots, idx, id) ==
  IF idx < Len(slots) THEN [slots EXCEPT ![idx + 1] = id]
  ELSE [i \in 1..(idx + 1) |->
          IF i <= Len(slots) THEN slots[i]
          ELSE IF i = idx + 1 THEN id ELSE HoleId]

\* currentTrickCardIds.map(id => entities.cards[id])
TrickCards(s, slots) == [i \in 1..Len(slots) |-> Lookup(s, slots[i])]

\* a TrickHistory record (its uuid and timestamp are left out)
TrickRecord(s, slots, winnerId, leadSuit) ==
  [roundNumber |-> s.roundNumber,
   trickNumber |-> s.tricksPlayed + 1,
   cardIds |-> slots,
   winnerId |-> winnerId,
   leadSuit |-> leadSuit]

\* payload of a dispatched action: the fields an action does not use are
\* NullId, <<>> and NoPlayer
Payload(cardId, cardIds, playerId) ==
  [cardId |-> cardId, cardIds |-> cardIds, playerId |-> playerId]

----------------------------------------------------------------------------
(* games/ninetyNine *)

NNcreateInitialState(n) ==
  [numPlayers |-> n,
   players |-> [p \in 0..(n - 1) |->
                  [handIds |-> <<>>, bidCardIds |-> <<>>, revealBid |-> FALSE,
                   tricksWon |-> 0, score |-> 0, hasDeclaration |-> FALSE]],
   cards |-> {},
   deckIds |-> <<>>,
   turnupCardId |-> NullId,
   gamePhase |-> "dealing",
   currentPlayerIndex |-> 0,
   currentTrickCardIds |-> EmptySlots(n),
   currentTrickSuit |-> Null,
   currentTrickWinner |-> NoPlayer,
   currentTrickLeader |-> 0,
   tricksPlayed |-> 0,
   isLoading |-> FALSE,
   error |-> NoError,
   lastAction |-> Null,
   gameStarted |-> FALSE,
   roundNumber |-> 1,
   lastTricks |-> <<>>,
   trumpSuit |-> Null,
   gameSettings |-> [maxRounds |-> NNMaxRounds,
                     maxTricks |-> CardsPerPlayer,
                     cardsPerPlayer |-> CardsPerPlayer]]

\* createNinetyNineDeck: a freshly created, shuffled deck (deck number g)
createNinetyNineDeck(g, sh) == shuffleDeck(DeckOf(g, NNNumRanks), sh)

NNisValidPlay(s, cardId, playerId) ==
  /\ cardId \in s.cards
  /\ playerId \in Seats(s)
  /\ s.currentPlayerIndex = playerId
  /\ cardId \in SeqToSet(Hand(s, playerId))
  /\ isValidPlayUtil(CardOf(cardId), HandCards(s, playerId), s.currentTrickSuit)

NNvalidateAction(s, action, playerId, payload) ==
  /\ playerId \in Seats(s)
  /\ (s.currentPlayerIndex = playerId \/ action \in {"DECLARE", "REVEAL_BID"})
  /\ CASE action = "PLAY_CARD" -> NNisValidPlay(s, payload.cardId, playerId)
       [] action = "PLACE_BID" ->
            /\ \A i \in 1..Len(payload.cardIds) :
                 payload.cardIds[i] \in SeqToSet(Hand(s, playerId))
            /\ Len(payload.cardIds) > 0
            /\ Len(payload.cardIds) <= MaxBidCards
       [] action = "DECLARE" ->
            /\ s.gamePhase = "bidding"
            /\ Len(s.players[playerId].bidCardIds) > 0
       [] action = "REVEAL_BID" ->
            /\ s.gamePhase = "playing"
            /\ ~s.players[playerId].revealBid
       [] OTHER -> TRUE

NNsetupRound(s, roundIndex, g, sh) ==
  LET n == s.numPlayers
      deal == dealCards(createNinetyNineDeck(g, sh), n, CardsPerPlayer)
      allCards == SeqToSet(deal.remainingDeck)
                  \cup (IF deal.turnupCard # NullId THEN {deal.turnupCard} ELSE {})
                  \cup UNION {SeqToSet(deal.hands[j]) : j \in 0..(n - 1)}
  IN [s EXCEPT
        !.currentTrickCardIds = EmptySlots(n),
        !.currentTrickSuit = Null,
        !.currentTrickWinner = NoPlayer,
        !.tricksPlayed = 0,
        !.gamePhase = "bidding",
        !.currentPlayerIndex = roundIndex % n,
        !.currentTrickLeader = roundIndex % n,
        !.deckIds = deal.remainingDeck,
        !.turnupCardId = deal.turnupCard,
        !.trumpSuit = IF deal.turnupCard # NullId
                      THEN CardOf(deal.turnupCard).suit ELSE @,
        !.cards = @ \cup allCards,
        !.players = [p \in 0..(n - 1) |->
                       [@[p] EXCEPT !.handIds = deal.hands[p],
                                    !.bidCardIds = <<>>,
                                    !.revealBid = FALSE,
                                    !.tricksWon = 0,
                                    !.hasDeclaration = FALSE]]]

\* the round-end branch of PLAY_CARD
NNRoundEnd(s) ==
  IF \/ s.tricksPlayed >= s.gameSettings.maxTricks
     \/ \E p \in Seats(s) : Len(Hand(s, p)) = 0
  THEN [s EXCEPT
          !.players = [p \in Seats(s) |->
                         [@[p] EXCEPT !.score =
                            @ + calculatePlayerScore(s.players[p].tricksWon,
                                                     s.players[p].bidCardIds)]],
          !.gamePhase = "scoring"]
  ELSE s

\* PLAY_CARD without its allPlayed branch
LeaveTrickComplete(s) == s

\* the allPlayed branch of PLAY_CARD
NNResolveTrick(s) ==
  LET slots == s.currentTrickCardIds
      w == determineTrickWinner(TrickCards(s, slots), s.currentTrickSuit,
                                s.trumpSuit)
  IN NNRoundEnd(
       [s EXCEPT
          !.players[w].tricksWon = @ + 1,
          !.currentTrickWinner = w,
          !.lastTricks = Append(@, TrickRecord(s, slots, w, s.currentTrickSuit)),
          !.currentTrickLeader = w,
          !.currentPlayerIndex = w,
          !.currentTrickCardIds = EmptySlots(s.numPlayers),
          !.currentTrickSuit = Null,
          !.tricksPlayed = @ + 1])

NNPLAY_CARD(s, payload) ==
  LET cardId == payload.cardId
      playerId == payload.playerId
  IN IF playerId \notin Seats(s) \/ cardId \notin s.cards THEN s
     ELSE LET s1 == [s EXCEPT
                       !.players[playerId].handIds = Without(@, {cardId}),
                       !.currentTrickCardIds = SetSlot(@, playerId, cardId),
                       !.currentTrickSuit =
                          IF s.currentTrickLeader = playerId
                          THEN CardOf(cardId).suit ELSE @]
          IN IF AllPlayed(s1.currentTrickCardIds)
             THEN NNResolveTrick(s1)
             ELSE [s1 EXCEPT !.currentPlayerIndex = (@ + 1) % s.numPlayers]

NNPLACE_BID(s, payload) ==
  LET cardIds == payload.cardIds
      playerId == payload.playerId
  IN IF playerId \notin Seats(s) THEN s
     ELSE LET s1 == [s EXCEPT
                       !.players[playerId].handIds = Without(@, SeqToSet(cardIds)),
                       !.players[playerId].bidCardIds = cardIds,
                       !.currentPlayerIndex = (@ + 1) % s.numPlayers]
          IN IF \A p \in Seats(s1) : Len(s1.players[p].bidCardIds) > 0
             THEN [s1 EXCEPT !.gamePhase = "playing"]
             ELSE s1

NNDECLARE(s, payload) ==
  IF payload.playerId \notin Seats(s) THEN s
  ELSE [s EXCEPT !.players[payload.playerId].hasDeclaration = TRUE]

\* REVEAL_BID with the turn passed on as PLACE_BID does
RevealAndPassTurn(s, payload) ==
  IF payload.playerId \notin Seats(s) THEN s
  ELSE [s EXCEPT !.players[payload.playerId].revealBid = TRUE,
                 !.currentPlayerIndex = (@ + 1) % s.numPlayers]

NNREVEAL_BID(s, payload) ==
  IF payload.playerId \notin Seats(s) THEN s
  ELSE [s EXCEPT !.players[payload.playerId].revealBid = TRUE]

\* START_NEXT_ROUND without its check that the game is over
StartRoundUnchecked(s, g, sh) ==
  NNsetupRound([s EXCEPT !.roundNumber = @ + 1], s.roundNumber, g, sh)

NNSTART_NEXT_ROUND(s, g, sh) ==
  IF \/ s.roundNumber >= s.gameSettings.maxRounds
     \/ \E p \in Seats(s) : s.players[p].score >= ScoreLimit
  THEN s
  ELSE NNsetupRound([s EXCEPT !.roundNumber = @ + 1], s.roundNumber, g, sh)

\* scoring.calculateScore
NNcalculateScore(s, playerId) ==
  calculatePlayerScore(s.players[playerId].tricksWon,
                       s.players[playerId].bidCardIds)

\* scoring.updateScores
NNupdateScores(s) ==
  [s EXCEPT !.players = [p \in Seats(s) |->
                           [@[p] EXCEPT !.score = @ + NNcalculateScore(s, p)]]]

\* actions.performAction; g and sh are the number and the shuffle of the
\* deck a new round would create
NNperformAction(s, action, playerId, payload, g, sh) ==
  IF ~NNvalidateAction(s, action, playerId, payload) THEN s
  ELSE CASE action = "PLAY_CARD" -> NNPLAY_CARD(s, payload)
         [] action = "PLACE_BID" -> NNPLACE_BID(s, payload)
         [] action = "DECLARE" -> NNDECLARE(s, payload)
         [] action = "REVEAL_BID" -> NNREVEAL_BID(s, payload)
         [] action = "START_NEXT_ROUND" -> NNSTART_NEXT_ROUND(s, g, sh)
         [] OTHER -> s

\* the ids of players and of cards are strings of different kinds
PlayerId(p) == [kind |-> "player", id |-> p]
CardId(c) == [kind |-> "card", id |-> c]
NoId == [kind |-> "null", id |-> 0]

\* rules.getTrickWinner: cards are the cards of a trick by seat
NNgetTrickWinner(s, cards, leadSuit) ==
  IF Len(cards) = 0 THEN NoId
  ELSE LET trumpSuit == IF s.turnupCardId # NullId
                        THEN Lookup(s, s.turnupCardId).suit ELSE Null
           winnerIndex == determineTrickWinner(cards, leadSuit, trumpSuit)
       IN IF winnerIndex \in Seats(s) THEN PlayerId(winnerIndex) ELSE NoId

\* utils/gameUtils isGameOver: the tricks won by all players reach the
\* number of tricks of a standard game
GameOverTricks == 9

\* the tricks won by the first n players
RECURSIVE TotalTricksWon(_, _)
TotalTricksWon(s, n) ==
  IF n = 0 THEN 0 ELSE s.players[n - 1].tricksWon + TotalTricksWon(s, n - 1)

isGameOver(s) == TotalTricksWon(s, s.numPlayers) >= GameOverTricks

\* rules.isGameOver
NNisGameOver(s) ==
  isGameOver(s) \/ s.roundNumber > s.gameSettings.maxRounds

----------------------------------------------------------------------------
(* store/slices/gameSlice *)

\* initialState of the slice
SliceInitialState ==
  [numPlayers |-> 0,
   players |-> [p \in {} |-> 0],
   cards |-> {},
   deckIds |-> <<>>,
   turnupCardId |-> NullId,
   gamePhase |-> "dealing",
   currentPlayerIndex |-> 0,
   currentTrickCardIds |-> EmptySlots(InitialSlots),
   currentTrickSuit |-> Null,
   currentTrickWinner |-> NoPlayer,
   currentTrickLeader |-> 0,
   tricksPlayed |-> 0,
   isLoading |-> FALSE,
   error |-> NoError,
   lastAction |-> Null,
   gameStarted |-> FALSE,
   roundNumber |-> 1,
   lastTricks |-> <<>>,
   gameSettings |-> [maxRounds |-> SliceMaxRounds,
                     maxTricks |-> SliceMaxTricks,
                     cardsPerPlayer |-> SliceCardsPerPlayer]]

\* state.error = { type, message }; return
SetError(s, type, message) ==
  [s EXCEPT !.error = [type |-> type, message |-> message]]

\* playCard and placeBid without the check of the hand
HandNotChecked(s, playerId, cardId) == TRUE

\* player.handIds.includes(card.id)
HandIncludes(s, playerId, cardId) == cardId \in SeqToSet(Hand(s, playerId))

\* the thunk initializeGame(numPlayers) and its fulfilled reducer
initializeGame(s, numPlayers, g, sh) ==
  LET deal == dealCards(createDeck(g, sh), numPlayers, SliceCardsPerPlayer)
  IN [s EXCEPT
        !.isLoading = FALSE,
        !.error = NoError,
        !.gameStarted = TRUE,
        !.gamePhase = "bidding",
        !.currentPlayerIndex = 0,
        !.currentTrickCardIds = EmptySlots(InitialSlots),
        !.currentTrickLeader = 0,
        !.roundNumber = 1,
        !.tricksPlayed = 0,
        !.lastTricks = <<>>,
        !.lastAction = "initializeGame",
        !.numPlayers = numPlayers,
        !.players = [p \in 0..(numPlayers - 1) |->
                       [handIds |-> deal.hands[p], bidCardIds |-> <<>>,
                        revealBid |-> FALSE, tricksWon |-> 0, score |-> 0]],
        !.cards = SeqToSet(deal.remainingDeck),
        !.deckIds = deal.remainingDeck,
        !.turnupCardId = deal.turnupCard]

\* reducer setGamePhase
setGamePhase(s, phase) ==
  [s EXCEPT !.gamePhase = phase, !.lastAction = "setGamePhase"]

\* reducer dealCards
SliceDealCards(s, g, sh) ==
  IF s.gamePhase # "dealing"
  THEN SetError(s, "GAME_STATE", "Cannot deal cards in current game phase")
  ELSE LET deal == dealCards(createDeck(g, sh), s.numPlayers,
                             SliceCardsPerPlayer)
       IN [s EXCEPT
             !.players = [p \in Seats(s) |->
                            [@[p] EXCEPT !.handIds = deal.hands[p]]],
             !.deckIds = deal.remainingDeck,
             !.turnupCardId = deal.turnupCard,
             !.gamePhase = "bidding",
             !.lastAction = "dealCards"]

\* the lead suit playCard reads: that of the card in slot 0
SliceLeadSuit(s) ==
  IF s.currentTrickCardIds[1] # NullId
  THEN Lookup(s, s.currentTrickCardIds[1]).suit
  ELSE Null

\* the round-over branch of playCard
SliceRoundOver(s) ==
  IF s.tricksPlayed >= s.gameSettings.maxTricks
  THEN IF s.roundNumber >= s.gameSettings.maxRounds
       THEN [s EXCEPT !.gamePhase = "scoring"]
       ELSE [s EXCEPT
               !.roundNumber = @ + 1,
               !.tricksPlayed = 0,
               !.lastTricks = <<>>,
               !.gamePhase = "dealing",
               !.currentTrickCardIds = EmptySlots(InitialSlots),
               !.currentTrickSuit = Null,
               !.currentTrickWinner = NoPlayer,
               !.currentTrickLeader = 0,
               !.currentPlayerIndex = 0,
               !.error = NoError,
               !.lastAction = "startNewRound",
               !.players = [p \in Seats(s) |->
                              [@[p] EXCEPT !.handIds = <<>>,
                                           !.bidCardIds = <<>>,
                                           !.revealBid = FALSE,
                                           !.tricksWon = 0,
                                           !.score = 0]]]
  ELSE s

\* state.turnupCardId ? state.entities.cards[state.turnupCardId].suit : null
SliceTrumpSuit(s) ==
  IF s.turnupCardId # NullId THEN Lookup(s, s.turnupCardId).suit ELSE Null

\* the trick-complete branch of playCard throws a TypeError when the turnup
\* card is not in entities.cards or determineTrickWinner throws
SliceResolveThrows(s, leadSuit) ==
  \/ s.turnupCardId # NullId /\ s.turnupCardId \notin s.cards
  \/ determineTrickWinner(TrickCards(s, s.currentTrickCardIds), leadSuit,
                          SliceTrumpSuit(s)) = Thrown

\* the trick-complete branch of playCard
SliceResolveTrick(s, leadSuit) ==
  LET slots == s.currentTrickCardIds
      w == determineTrickWinner(TrickCards(s, slots), leadSuit,
                                SliceTrumpSuit(s))
      winnerId == IF w \in Seats(s) THEN w ELSE NoPlayer
  IN SliceRoundOver(
       [s EXCEPT
          !.players = [p \in Seats(s) |->
                         [@[p] EXCEPT !.tricksWon =
                            IF p = winnerId THEN @ + 1 ELSE @]],
          !.lastTricks = Append(@, TrickRecord(s, slots, winnerId, leadSuit)),
          !.tricksPlayed = @ + 1,
          !.currentTrickCardIds = EmptySlots(InitialSlots),
          !.currentTrickLeader = w,
          !.currentPlayerIndex = w])

\* reducer playCard; a TypeError thrown by the reducer leaves the state of
\* the store as it was
playCard(s, playerId, cardId) ==
  IF playerId \notin Seats(s)
  THEN SetError(s, "VALIDATION", "Invalid player ID")
  ELSE IF ~HandIncludes(s, playerId, cardId)
  THEN SetError(s, "VALIDATION", "Card not in player hand")
  ELSE IF s.gamePhase # "playing"
  THEN SetError(s, "GAME_STATE", "Cannot play cards in current game phase")
  ELSE LET leadSuit == SliceLeadSuit(s)
           card == CardOf(cardId)
       IN IF isValidPlayThrows(card, HandCards(s, playerId), leadSuit) THEN s
          ELSE IF ~isValidPlayUtil(card, HandCards(s, playerId), leadSuit)
          THEN SetError(s, "VALIDATION", "Invalid card play")
          ELSE LET s1 == [s EXCEPT
                            !.currentTrickCardIds = SetSlot(@, playerId, cardId),
                            !.players[playerId].handIds = Without(@, {cardId})]
               IN IF AllPlayed(s1.currentTrickCardIds)
                  THEN IF SliceResolveThrows(s1, leadSuit) THEN s
                       ELSE [SliceResolveTrick(s1, leadSuit) EXCEPT
                               !.lastAction = "playCard"]
                  ELSE [s1 EXCEPT
                          !.currentPlayerIndex = (@ + 1) % s.numPlayers,
                          !.lastAction = "playCard"]

\* reducer placeBid
placeBid(s, playerId, cardIds) ==
  IF playerId \notin Seats(s)
  THEN SetError(s, "VALIDATION", "Invalid player ID")
  ELSE IF s.gamePhase # "bidding"
  THEN SetError(s, "GAME_STATE", "Cannot place bid in current game phase")
  ELSE IF ~(\A i \in 1..Len(cardIds) : HandIncludes(s, playerId, cardIds[i]))
  THEN SetError(s, "VALIDATION", "Invalid bid cards")
  ELSE LET s1 == [s EXCEPT
                    !.players[playerId].bidCardIds = cardIds,
                    !.players[playerId].handIds = Without(@, SeqToSet(cardIds)),
                    !.lastAction = "placeBid"]
       IN IF \A p \in Seats(s1) : Len(s1.players[p].bidCardIds) > 0
          THEN [s1 EXCEPT !.gamePhase = "playing"]
          ELSE s1

\* reducer revealBid
revealBid(s, playerId) ==
  IF playerId \notin Seats(s)
  THEN SetError(s, "VALIDATION", "Invalid player ID")
  ELSE [s EXCEPT !.players[playerId].revealBid = TRUE,
                 !.lastAction = "revealBid"]

\* reducer calculateScores
calculateScores(s) ==
  [s EXCEPT
     !.players = [p \in Seats(s) |->
                    [@[p] EXCEPT !.score =
                       calculatePlayerScore(s.players[p].tricksWon,
                                            s.players[p].bidCardIds)]],
     !.gamePhase = "playing",
     !.currentPlayerIndex = 0,
     !.currentTrickCardIds = EmptySlots(InitialSlots),
     !.currentTrickSuit = Null,
     !.currentTrickWinner = NoPlayer,
     !.currentTrickLeader = 0,
     !.tricksPlayed = 0,
     !.error = NoError,
     !.lastAction = "calculateScores"]

----------------------------------------------------------------------------
(* Dispatching to the Ninety-Nine variant *)

\* an id that no deck holds
UnknownId == (MaxDecks + 2) * IdsPerDeck + 1

\* the cards a player may name in a play: those of the own hand, the first
\* card of every other hand and bid list, the turnup card and an unknown id
CardInputs(s, p) ==
  (IF p \in Seats(s) THEN SeqToSet(Hand(s, p)) ELSE {})
  \cup {Hand(s, q)[1] : q \in {r \in Seats(s) : Len(Hand(s, r)) > 0}}
  \cup {s.players[q].bidCardIds[1] :
          q \in {r \in Seats(s) : Len(s.players[r].bidCardIds) > 0}}
  \cup ({s.turnupCardId} \ {NullId})
  \cup {UnknownId}

\* the card lists a bid may name: the first k cards of the own hand
\* (k = 0 is the empty list), or a single card that is not in the hand
CardListInputs(s, p) ==
  IF p \in Seats(s)
  THEN {SubSeq(Hand(s, p), 1, k) : k \in 0..Len(Hand(s, p))}
       \cup {<<c>> : c \in CardInputs(s, p) \ SeqToSet(Hand(s, p))}
  ELSE {<<>>} \cup {<<c>> : c \in CardInputs(s, p)}

\* last names the action that changed the state last, who dispatched it and
\* the card it named; a rejected or dropped action leaves the state as it is
NNDispatch(action, playerId, payload, sh) ==
  /\ decks < MaxDecks
  /\ \E after \in {NNperformAction(state, action, playerId, payload, decks, sh)} :
       /\ state' = after
       /\ decks' = IF after.cards # state.cards THEN decks + 1 ELSE decks
       /\ last' = IF after = state THEN last
                  ELSE [action |-> action, playerId |-> playerId,
                        cardId |-> payload.cardId]

\* the payload's own playerId is the acting player, or is missing
PayloadPlayers(p) == {p, NoPlayer}

\* the seats that dispatch DECLARE and REVEAL_BID (revealBid of the slice)
AsyncSeats(s) == Seats(s) \cap {1}

NNPlayCard ==
  /\ IsVariantState(state)
  /\ \E p \in Seats(state) :
       \E c \in CardInputs(state, p), pp \in PayloadPlayers(p) :
         NNDispatch("PLAY_CARD", p, Payload(c, <<>>, pp), 1)

NNPlaceBid ==
  /\ IsVariantState(state)
  /\ \E p \in Seats(state) :
       \E pp \in PayloadPlayers(p), cs \in CardListInputs(state, p) :
         NNDispatch("PLACE_BID", p, Payload(NullId, cs, pp), 1)

NNDeclare ==
  /\ IsVariantState(state)
  /\ \E p \in AsyncSeats(state) :
       \E pp \in PayloadPlayers(p) :
         NNDispatch("DECLARE", p, Payload(NullId, <<>>, pp), 1)

NNRevealBid ==
  /\ IsVariantState(state)
  /\ \E p \in AsyncSeats(state) :
       \E pp \in PayloadPlayers(p) :
         NNDispatch("REVEAL_BID", p, Payload(NullId, <<>>, pp), 1)

NNStartNextRound ==
  /\ IsVariantState(state)
  /\ \E p \in Seats(state), sh \in Shuffles :
       NNDispatch("START_NEXT_ROUND", p, Payload(NullId, <<>>, NoPlayer), sh)

NNViewScores ==
  /\ IsVariantState(state)
  /\ \E p \in Seats(state) :
       NNDispatch("VIEW_SCORES", p, Payload(NullId, <<>>, NoPlayer), 1)

NoAction == [action |-> Null, playerId |-> NoPlayer, cardId |-> NullId]

InitNN ==
  /\ \E n \in MinPlayers..MaxPlayers : state = NNcreateInitialState(n)
  /\ decks = 0
  /\ last = NoAction

NextNN ==
  \/ NNPlayCard
  \/ NNPlaceBid
  \/ NNDeclare
  \/ NNRevealBid
  \/ NNStartNextRound
  \/ NNViewScores

SpecNN == InitNN /\ [][NextNN]_vars

----------------------------------------------------------------------------
(* Dispatching to the store of the slice *)

\* largest number of players initializeGame is called with
SliceMaxPlayers == 4

\* the player ids an action may name: every player's and one of no player
PlayerInputs(s) == Seats(s) \cup {s.numPlayers}

\* the clients of the store: every seat but the last plays its own cards
\* when it is the current player and bids its own cards once while bids
\* are taken; the last seat, and a client that names no player, dispatch
\* anything at any time
Unruly(s, p) == p \in {s.numPlayers - 1, s.numPlayers}

PlayInputs(s, p) ==
  IF Unruly(s, p) THEN CardInputs(s, p)
  ELSE IF s.gamePhase = "playing" /\ s.currentPlayerIndex = p
       THEN SeqToSet(Hand(s, p))
       ELSE {}

BidInputs(s, p) ==
  IF Unruly(s, p) THEN CardListInputs(s, p)
  ELSE IF s.gamePhase = "bidding" /\ Len(s.players[p].bidCardIds) = 0
       THEN {SubSeq(Hand(s, p), 1, k) : k \in 1..Len(Hand(s, p))}
       ELSE {}

SliceDispatch(action, playerId, cardId, result, newDeck) ==
  /\ newDeck => decks < MaxDecks
  /\ \E after \in {result} :
       /\ state' = after
       /\ decks' = IF newDeck THEN decks + 1 ELSE decks
       /\ last' = IF after = state THEN last
                  ELSE [action |-> action, playerId |-> playerId,
                        cardId |-> cardId]

SliceInitializeGame ==
  /\ IsSliceState(state)
  /\ ~state.gameStarted
  /\ \E n \in 0..SliceMaxPlayers, sh \in Shuffles :
       SliceDispatch("initializeGame", NoPlayer, NullId,
                     initializeGame(state, n, decks, sh), TRUE)

SliceDeal ==
  /\ IsSliceState(state)
  /\ \E sh \in Shuffles :
       SliceDispatch("dealCards", NoPlayer, NullId,
                     SliceDealCards(state, decks, sh),
                     state.gamePhase = "dealing")

SlicePlayCard ==
  /\ IsSliceState(state)
  /\ \E p \in PlayerInputs(state) :
       \E c \in PlayInputs(state, p) :
         SliceDispatch("playCard", p, c, playCard(state, p, c), FALSE)

SlicePlaceBid ==
  /\ IsSliceState(state)
  /\ \E p \in PlayerInputs(state) :
       \E cs \in BidInputs(state, p) :
         SliceDispatch("placeBid", p, NullId, placeBid(state, p, cs), FALSE)

SliceRevealBid ==
  /\ IsSliceState(state)
  /\ \E p \in {q \in PlayerInputs(state) : Unruly(state, q)} :
       SliceDispatch("revealBid", p, NullId, revealBid(state, p), FALSE)

\* the score calculation is dispatched while tricks are played or scores
\* are due
SliceCalculateScores ==
  /\ IsSliceState(state)
  /\ state.gamePhase \in {"playing", "scoring"}
  /\ SliceDispatch("calculateScores", NoPlayer, NullId,
                   calculateScores(state), FALSE)

InitSlice ==
  /\ state = SliceInitialState
  /\ decks = 0
  /\ last = NoAction

NextSlice ==
  \/ SliceInitializeGame
  \/ SliceDeal
  \/ SlicePlayCard
  \/ SlicePlaceBid
  \/ SliceRevealBid
  \/ SliceCalculateScores

SpecSlice == InitSlice /\ [][NextSlice]_vars

----------------------------------------------------------------------------
(* The slice and the variant together *)

Init == InitNN \/ InitSlice

Next == NextNN \/ NextSlice

Spec == Init /\ [][Next]_vars

----------------------------------------------------------------------------
(* determineTrickWinner on its own: a complete trick, the seat that led it *)
(* and the trump suit are drawn, then the winner is computed               *)

\* number of cards of a drawn trick
TrickSize == 3

\* the complete tricks: TrickSize different cards of one deck, by seat
Tricks ==
  {t \in [1..TrickSize -> SeqToSet(DeckOf(0, NNNumRanks))] :
     \A i, j \in 1..TrickSize : i # j => t[i] # t[j]}

SuitSet == {Suit[i] : i \in 1..Len(Suit)}

IsTrickState(s) == "trick" \in DOMAIN s

InitTrick ==
  /\ \E t \in Tricks, leader \in 0..(TrickSize - 1), trump \in SuitSet \cup {Null} :
       state = [trick |-> [i \in 1..TrickSize |-> CardOf(t[i])],
                leader |-> leader,
                trumpSuit |-> trump,
                resolved |-> FALSE,
                winnerIndex |-> 0]
  /\ decks = 0
  /\ last = NoAction

\* the call of the trick-complete branches: the lead suit passed is that of
\* the card of the seat that led
TrickResolve ==
  /\ IsTrickState(state)
  /\ ~state.resolved
  /\ state' = [state EXCEPT
                 !.resolved = TRUE,
                 !.winnerIndex =
                    determineTrickWinner(state.trick,
                                         state.trick[state.leader + 1].suit,
                                         state.trumpSuit)]
  /\ UNCHANGED <<decks, last>>

NextTrick == TrickResolve

SpecTrick == InitTrick /\ [][NextTrick]_vars

----------------------------------------------------------------------------
(* games/hearts *)
(* validateAction reaches the play rule as this.isValidPlay inside arrow    *)
(* functions, where this is not the rules object: for PLAY_CARD the call   *)
(* ends in a TypeError.  Cards are played by the reducer PLAY_CARD itself, *)
(* given the plays that rules.isValidPlay accepts                          *)

\* ranks per suit in the deck of createHeartsDeck (13 in the code)
HNumRanks == 3
\* number of decks created in one run of a Hearts game
HMaxDecks == 2
\* number of shuffle outcomes of createHeartsDeck explored
HShuffles == 3
\* largest number of players of a Hearts game explored (6 in the code)
HMaxPlayers == 3

\* number of tricks played in one run of a Hearts game
HMaxTricks == 5

\* points of the Queen of Spades
QueenPoints == 13
\* points of every other player when a player shoots the moon
MoonPoints == 26
\* cards a player passes
PassCount == 3
\* the number of hearts a shooter holds: all hearts of the deck (13 in the
\* code)
AllHearts == HNumRanks

\* createHeartsDeck: a freshly created, shuffled deck (deck number g)
createHeartsDeck(g, sh) == shuffleDeck(DeckOf(g, HNumRanks), sh)

\* getRankValue
getRankValue(rank) ==
  CASE rank = "TWO" -> 2
    [] rank = "THREE" -> 3
    [] rank = "FOUR" -> 4
    [] rank = "FIVE" -> 5
    [] rank = "SIX" -> 6
    [] rank = "SEVEN" -> 7
    [] rank = "EIGHT" -> 8
    [] rank = "NINE" -> 9
    [] rank = "TEN" -> 10
    [] rank = "JACK" -> 11
    [] rank = "QUEEN" -> 12
    [] rank = "KING" -> 13
    [] rank = "ACE" -> 14
    [] OTHER -> 0

\* getPassOffset
getPassOffset(direction, numPlayers) ==
  CASE direction = "left" -> 1
    [] direction = "right" -> numPlayers - 1
    [] direction = "across" -> numPlayers \div 2
    [] OTHER -> 0

passDirections == <<"left", "right", "across", "none">>

IsHeartsState(s) == "heartsPlayed" \in DOMAIN s

\* setup.dealCards: every player in turn pops floor(deck.length / numPlayers)
\* cards off the end of the deck
HdealCards(deck, numPlayers) ==
  LET cardsPerPlayer == Len(deck) \div numPlayers
  IN [hands |-> [i \in 0..(numPlayers - 1) |->
                   [j \in 1..cardsPerPlayer |->
                      deck[Len(deck) - i * cardsPerPlayer - (j - 1)]]],
      remainingDeck |-> SubSeq(deck, 1, Len(deck) - numPlayers * cardsPerPlayer)]

\* setup.createInitialState (settings.maxRounds is not given)
HcreateInitialState(n) ==
  [numPlayers |-> n,
   players |-> [p \in 0..(n - 1) |->
                  [handIds |-> <<>>,
                   passIds |-> <<>>,
                   tricksWon |-> 0,
                   heartsWon |-> 0,
                   hasQueenOfSpades |-> FALSE,
                   score |-> 0,
                   roundScore |-> 0]],
   cards |-> {},
   deckIds |-> <<>>,
   gamePhase |-> "passing",
   currentPlayerIndex |-> 0,
   currentTrickCardIds |-> EmptySlots(n),
   currentTrickLeader |-> 0,
   tricksPlayed |-> 0,
   heartsPlayed |-> FALSE,
   roundNumber |-> 1,
   passDirection |-> "left",
   roundPoints |-> [p \in 0..(n - 1) |-> 0],
   lastTricks |-> <<>>,
   gameSettings |-> [maxRounds |-> 0, shootTheMoon |-> TRUE]]

IsTwoOfClubs(card) == card.suit = "CLUBS" /\ card.rank = "TWO"

\* the seats whose new hand holds the 2 of Clubs
TwoOfClubsSeats(hands, n) ==
  {i \in 0..(n - 1) : \E k \in 1..Len(hands[i]) : IsTwoOfClubs(CardOf(hands[i][k]))}

\* the last seat of the forEach that holds the 2 of Clubs leads; without one
\* the current player and the leader stay
FirstLeader(hands, n, old) ==
  IF TwoOfClubsSeats(hands, n) = {} THEN old
  ELSE CHOOSE i \in TwoOfClubsSeats(hands, n) :
         \A k \in TwoOfClubsSeats(hands, n) : k <= i

\* setup.setupRound
HsetupRound(s, roundIndex, g, sh) ==
  LET n == s.numPlayers
      deal == HdealCards(createHeartsDeck(g, sh), n)
      allCards == SeqToSet(deal.remainingDeck)
                  \cup UNION {SeqToSet(deal.hands[j]) : j \in 0..(n - 1)}
  IN [s EXCEPT
        !.currentTrickCardIds = EmptySlots(n),
        !.heartsPlayed = FALSE,
        !.gamePhase = "passing",
        !.passDirection = passDirections[(roundIndex % 4) + 1],
        !.deckIds = deal.remainingDeck,
        !.cards = @ \cup allCards,
        !.currentPlayerIndex = FirstLeader(deal.hands, n, @),
        !.currentTrickLeader = FirstLeader(deal.hands, n, @),
        !.roundPoints = [p \in 0..(n - 1) |-> 0],
        !.players = [p \in 0..(n - 1) |->
                       [@[p] EXCEPT !.handIds = deal.hands[p],
                                    !.passIds = <<>>,
                                    !.tricksWon = 0,
                                    !.heartsWon = 0,
                                    !.hasQueenOfSpades = FALSE,
                                    !.roundScore = 0]]]

\* isValidPlay without the rule that hearts are not led before one was played
HeartsLedFreely(s, cardId, playerId) == TRUE

\* the branch of rules.isValidPlay for a heart that leads a trick
HeartLeadAllowed(s, cardId, playerId) ==
  IF CardOf(cardId).suit = "HEARTS" /\ ~s.heartsPlayed
  THEN \A k \in 1..Len(Hand(s, playerId)) :
         CardOf(Hand(s, playerId)[k]).suit = "HEARTS"
  ELSE TRUE

\* rules.isValidPlay
HisValidPlay(s, cardId, playerId) ==
  /\ cardId \in s.cards
  /\ playerId \in Seats(s)
  /\ s.currentPlayerIndex = playerId
  /\ IF s.tricksPlayed = 0 /\ \A i \in 1..Len(s.currentTrickCardIds) :
                                 s.currentTrickCardIds[i] = NullId
     THEN /\ cardId \in SeqToSet(Hand(s, playerId))
          /\ IsTwoOfClubs(CardOf(cardId))
     ELSE /\ cardId \in SeqToSet(Hand(s, playerId))
          /\ IF \A i \in 1..Len(s.currentTrickCardIds) :
                  s.currentTrickCardIds[i] = NullId
             THEN HeartLeadAllowed(s, cardId, playerId)
             ELSE LET leadCardId == s.currentTrickCardIds[s.currentTrickLeader + 1]
                  IN /\ leadCardId # NullId
                     /\ (\E k \in 1..Len(Hand(s, playerId)) :
                           CardOf(Hand(s, playerId)[k]).suit
                             = CardOf(leadCardId).suit)
                        => CardOf(cardId).suit = CardOf(leadCardId).suit

\* rules.validateAction reads this.isValidPlay: this is undefined (or the
\* exports of the module, without isValidPlay) and the call throws a
\* TypeError
HvalidateActionThrows(action) == action = "PLAY_CARD"

\* rules.validateAction; the case of PLAY_CARD is the value the call names
\* and, as HvalidateActionThrows says, never returns
HvalidateAction(s, action, playerId, payload) ==
  CASE action = "PLAY_CARD" -> HisValidPlay(s, payload.cardId, playerId)
    [] action = "PASS_CARDS" -> s.gamePhase = "passing"
    [] OTHER -> TRUE

\* the number of hearts among the cards of a trick
HeartsIn(slots) ==
  Cardinality({i \in 1..Len(slots) : CardOf(slots[i]).suit = "HEARTS"})

\* whether the Queen of Spades is among the cards of a trick
QueenIn(slots) ==
  \E i \in 1..Len(slots) :
    CardOf(slots[i]).suit = "SPADES" /\ CardOf(slots[i]).rank = "QUEEN"

\* the seat of the highest card of the lead suit
HTrickWinner(slots, leader) ==
  LET leadSuit == CardOf(slots[leader + 1]).suit
      suitSlots == {i \in 1..Len(slots) : CardOf(slots[i]).suit = leadSuit}
  IN (CHOOSE i \in suitSlots :
        \A k \in suitSlots :
          getRankValue(CardOf(slots[k]).rank) <= getRankValue(CardOf(slots[i]).rank))
     - 1

\* roundPoints without the rule for a player that took every point card
NoMoon(s) == s.roundPoints

\* the shoot-the-moon branch of PLAY_CARD: the round points after it
HMoonPoints(s) ==
  LET shooters == {p \in Seats(s) : /\ s.players[p].heartsWon = AllHearts
                                    /\ s.players[p].hasQueenOfSpades}
  IN IF s.gameSettings.shootTheMoon /\ shooters # {}
     THEN LET shooter == CHOOSE p \in shooters : \A q \in shooters : p <= q
          IN [p \in Seats(s) |-> IF p = shooter THEN 0 ELSE MoonPoints]
     ELSE s.roundPoints

\* the round-over branch of PLAY_CARD
HRoundOver(s) ==
  IF \E p \in Seats(s) : Len(Hand(s, p)) = 0
  THEN LET points == HMoonPoints(s)
       IN [s EXCEPT
             !.roundPoints = points,
             !.players = [p \in Seats(s) |->
                            [@[p] EXCEPT !.roundScore = points[p],
                                         !.score = @ + points[p]]],
             !.gamePhase = "scoring"]
  ELSE s

\* the allPlayed branch of PLAY_CARD
HResolveTrick(s) ==
  LET slots == s.currentTrickCardIds
      w == HTrickWinner(slots, s.currentTrickLeader)
      hearts == HeartsIn(slots)
      queen == QueenIn(slots)
  IN HRoundOver(
       [s EXCEPT
          !.players[w].tricksWon = @ + 1,
          !.players[w].heartsWon = @ + hearts,
          !.players[w].hasQueenOfSpades = @ \/ queen,
          !.roundPoints[w] = @ + hearts + (IF queen THEN QueenPoints ELSE 0),
          !.lastTricks = Append(@, TrickRecord(s, slots, w,
                                               CardOf(slots[s.currentTrickLeader + 1]).suit)),
          !.currentTrickLeader = w,
          !.currentPlayerIndex = w,
          !.currentTrickCardIds = EmptySlots(s.numPlayers),
          !.tricksPlayed = @ + 1])

\* actionReducers.PLAY_CARD
HPLAY_CARD(s, payload) ==
  IF payload.playerId \notin Seats(s) \/ payload.cardId \notin s.cards THEN s
  ELSE LET s1 == [s EXCEPT
                    !.players[payload.playerId].handIds =
                       Without(@, {payload.cardId}),
                    !.currentTrickCardIds =
                       SetSlot(@, payload.playerId, payload.cardId),
                    !.heartsPlayed =
                       @ \/ CardOf(payload.cardId).suit = "HEARTS"]
       IN IF AllPlayed(s1.currentTrickCardIds)
          THEN HResolveTrick(s1)
          ELSE [s1 EXCEPT !.currentPlayerIndex = (@ + 1) % s.numPlayers]

\* the forEach of PASS_CARDS that moves the passed cards, from seat i on
RECURSIVE PassFrom(_, _, _)
PassFrom(players, i, passOffset) ==
  LET n == Cardinality(DOMAIN players)
  IN IF i >= n THEN players
     ELSE LET target == (i + passOffset + n) % n
              removed == [players EXCEPT
                            ![i].handIds = Without(@, SeqToSet(players[i].passIds))]
              added == [removed EXCEPT
                          ![target].handIds = @ \o players[i].passIds]
          IN PassFrom(added, i + 1, passOffset)

\* actionReducers.PASS_CARDS
HPASS_CARDS(s, payload) ==
  IF payload.playerId \notin Seats(s) \/ Len(payload.cardIds) # PassCount THEN s
  ELSE LET s1 == [s EXCEPT !.players[payload.playerId].passIds = payload.cardIds]
       IN IF \A p \in Seats(s) : Len(s1.players[p].passIds) = PassCount
          THEN [s1 EXCEPT
                  !.players =
                     [p \in Seats(s) |->
                        [PassFrom(s1.players, 0,
                                  getPassOffset(s.passDirection, s.numPlayers))[p]
                           EXCEPT !.passIds = <<>>]],
                  !.gamePhase = "playing"]
          ELSE s1

\* actionReducers.START_NEXT_ROUND
HSTART_NEXT_ROUND(s, g, sh) ==
  IF s.gameSettings.maxRounds > 0 /\ s.roundNumber >= s.gameSettings.maxRounds
  THEN s
  ELSE IF \E p \in Seats(s) : s.players[p].score >= ScoreLimit
  THEN s
  ELSE HsetupRound([s EXCEPT !.roundNumber = @ + 1], s.roundNumber, g, sh)

\* actions.performAction: the reducer is given the payload with the playerId
\* of the call; an exception of validateAction ends the call and leaves the
\* state of the caller as it is
HperformAction(s, action, playerId, payload, g, sh) ==
  IF HvalidateActionThrows(action) THEN s
  ELSE IF ~HvalidateAction(s, action, playerId, payload) THEN s
  ELSE LET p == [payload EXCEPT !.playerId = playerId]
       IN CASE action = "PLAY_CARD" -> HPLAY_CARD(s, p)
            [] action = "PASS_CARDS" -> HPASS_CARDS(s, p)
            [] action = "START_NEXT_ROUND" -> HSTART_NEXT_ROUND(s, g, sh)
            [] OTHER -> s

\* scoring.calculateScore
HcalculateScore(s, playerId) ==
  LET player == s.players[playerId]
  IN IF /\ s.gameSettings.shootTheMoon
        /\ player.heartsWon = AllHearts
        /\ player.hasQueenOfSpades
     THEN 0
     ELSE player.heartsWon + (IF player.hasQueenOfSpades THEN QueenPoints ELSE 0)

\* rules.getTrickWinner: the id of the highest card of the lead suit
HgetTrickWinner(s, cards, leadSuit) ==
  LET suitCards == {i \in 1..Len(cards) : cards[i].suit = leadSuit}
  IN IF suitCards = {} THEN NoId
     ELSE CardId(cards[CHOOSE i \in suitCards :
                         \A k \in suitCards :
                           getRankValue(cards[k].rank)
                             <= getRankValue(cards[i].rank)].id)

(* Dispatching to a Hearts game *)

HApply(action, playerId, cardId, after) ==
  /\ state' = after
  /\ decks' = IF after.cards # state.cards THEN decks + 1 ELSE decks
  /\ last' = IF after = state THEN last
             ELSE [action |-> action, playerId |-> playerId, cardId |-> cardId]

HDispatch(action, playerId, payload, sh) ==
  \E after \in {HperformAction(state, action, playerId, payload, decks, sh)} :
    HApply(action, playerId, payload.cardId, after)

\* the cards a player may name in a play: those of the own hand and the
\* first card of every other hand
HCardInputs(s, p) ==
  SeqToSet(Hand(s, p))
  \cup {Hand(s, q)[1] : q \in {r \in Seats(s) : Len(Hand(s, r)) > 0}}

\* the reducer PLAY_CARD is given the plays that isValidPlay accepts, in the
\* phase in which availableActions offers the play, until HMaxTricks tricks
\* have been played
HPlayCard ==
  /\ IsHeartsState(state)
  /\ state.gamePhase = "playing"
  /\ state.tricksPlayed < HMaxTricks
  /\ \E p \in Seats(state) :
       \E c \in HCardInputs(state, p) :
         /\ HisValidPlay(state, c, p)
         /\ HApply("PLAY_CARD", p, c, HPLAY_CARD(state, Payload(c, <<>>, p)))

\* a player passes the first cards of the hand, once
HPassCards ==
  /\ IsHeartsState(state)
  /\ \E p \in Seats(state) :
       /\ state.players[p].passIds = <<>>
       /\ Len(Hand(state, p)) >= PassCount
       /\ HDispatch("PASS_CARDS", p,
                    Payload(NullId, SubSeq(Hand(state, p), 1, PassCount), NoPlayer), 1)

\* the next round is started before the first deal and when a round is over
HStartNextRound ==
  /\ IsHeartsState(state)
  /\ decks < HMaxDecks
  /\ state.gamePhase = "scoring" \/ state.cards = {}
  /\ \E p \in Seats(state), sh \in 1..HShuffles :
       HDispatch("START_NEXT_ROUND", p, Payload(NullId, <<>>, NoPlayer), sh)

InitHearts ==
  /\ \E n \in MinPlayers..HMaxPlayers : state = HcreateInitialState(n)
  /\ decks = 0
  /\ last = NoAction

NextHearts ==
  \/ HPlayCard
  \/ HPassCards
  \/ HStartNextRound

SpecHearts == InitHearts /\ [][NextHearts]_vars

----------------------------------------------------------------------------
(* components/GameProvider: a Ninety-Nine game against the computer.  The  *)
(* provider holds the game state object; the effect for the turn of a      *)
(* computer player runs when the provider is given another object, clears  *)
(* the timer it set before and sets a new one                              *)

\* number of state objects the provider is given after the first
AIMaxObjects == 2

\* number of rounds started against the computer
AIMaxRounds == 1

\* the players played by the computer: all but the first
IsAIPlayer(p) == p > 0

IsAIState(s) == "timers" \in DOMAIN s

\* actions.availableActions
NNavailableActions(s, playerId) ==
  IF playerId \notin Seats(s) THEN {}
  ELSE LET isCurrentPlayer == s.currentPlayerIndex = playerId
           player == s.players[playerId]
       IN CASE s.gamePhase = "bidding" ->
                 (IF isCurrentPlayer THEN {"PLACE_BID"} ELSE {})
                 \cup (IF Len(player.bidCardIds) > 0 /\ ~player.hasDeclaration
                       THEN {"DECLARE"} ELSE {})
            [] s.gamePhase = "playing" ->
                 (IF isCurrentPlayer THEN {"PLAY_CARD"} ELSE {})
                 \cup (IF ~player.revealBid THEN {"REVEAL_BID"} ELSE {})
            [] s.gamePhase = "scoring" ->
                 {"VIEW_SCORES"}
                 \cup (IF isCurrentPlayer THEN {"START_NEXT_ROUND"} ELSE {})
            [] OTHER -> {}

\* the effect for the turn of a computer player: the timers pending after it
\* ran for the state object
EffectTimers(game, object) ==
  IF IsAIPlayer(game.currentPlayerIndex)
  THEN {[object |-> object, playerId |-> game.currentPlayerIndex]}
  ELSE {}

\* the first card of the hand that isValidPlay accepts, NullId without one
CardToPlay(game, p) ==
  LET valid == {k \in 1..Len(Hand(game, p)) : NNisValidPlay(game, Hand(game, p)[k], p)}
  IN IF valid = {} THEN NullId
     ELSE Hand(game, p)[CHOOSE k \in valid : \A j \in valid : k <= j]

\* the selections of numBidCards cards of the hand, of all of it when it is
\* shorter, in the order they are drawn
BidSelections(hand, numBidCards) ==
  LET k == IF numBidCards < Len(hand) THEN numBidCards ELSE Len(hand)
  IN {[i \in 1..k |-> hand[f[i]]] :
        f \in {h \in [1..k -> 1..Len(hand)] :
                 \A i, j \in 1..k : i # j => h[i] # h[j]}}

\* the state the callback of a timer leaves: a bid of the selected cards, or
\* a play of the first valid card
TimerCallback(game, p, bidCardIds, g) ==
  IF NNavailableActions(game, p) = {} THEN game
  ELSE IF game.gamePhase = "bidding"
  THEN NNperformAction(game, "PLACE_BID", p, Payload(NullId, bidCardIds, p), g, 1)
  ELSE IF game.gamePhase = "playing" /\ CardToPlay(game, p) # NullId
  THEN NNperformAction(game, "PLAY_CARD", p,
                       Payload(CardToPlay(game, p), <<>>, p), g, 1)
  ELSE game

\* selectGame: the provider is given a new initial state
AISelectGame ==
  /\ IsAIState(state)
  /\ state.object < AIMaxObjects
  /\ state' = [game |-> NNcreateInitialState(MinPlayers),
               object |-> state.object + 1,
               timers |-> EffectTimers(NNcreateInitialState(MinPlayers),
                                       state.object + 1)]
  /\ last' = [action |-> "selectGame", playerId |-> NoPlayer, cardId |-> NullId]
  /\ UNCHANGED decks

\* performAction('START_NEXT_ROUND'): setupRound returns a copy of the state,
\* the provider is given a new object; a game that is over stays as it is
AIStartNextRound ==
  /\ IsAIState(state)
  /\ decks < AIMaxRounds
  /\ state.object < AIMaxObjects
  /\ \E after \in {NNperformAction(state.game, "START_NEXT_ROUND",
                                   state.game.currentPlayerIndex,
                                   Payload(NullId, <<>>, NoPlayer), decks, 1)} :
       /\ after # state.game
       /\ state' = [game |-> after,
                    object |-> state.object + 1,
                    timers |-> EffectTimers(after, state.object + 1)]
       /\ decks' = decks + 1
       /\ last' = [action |-> "START_NEXT_ROUND",
                   playerId |-> state.game.currentPlayerIndex, cardId |-> NullId]

\* a click on a card of a hand: performAction('PLAY_CARD') for the owner of
\* the hand; the reducer changes the state object in place, the effect does
\* not run
AIClickCard ==
  /\ IsAIState(state)
  /\ \E p \in Seats(state.game) :
       \E c \in SeqToSet(Hand(state.game, p)) :
         \E after \in {NNperformAction(state.game, "PLAY_CARD", p,
                                       Payload(c, <<>>, p), decks, 1)} :
           /\ after # state.game
           /\ state' = [state EXCEPT !.game = after]
           /\ last' = [action |-> "PLAY_CARD", playerId |-> p, cardId |-> c]
           /\ UNCHANGED decks

\* the first player bids the first card of the hand, in place
AIHumanBid ==
  /\ IsAIState(state)
  /\ Len(Hand(state.game, 0)) > 0
  /\ \E after \in {NNperformAction(state.game, "PLACE_BID", 0,
                                   Payload(NullId, SubSeq(Hand(state.game, 0), 1, 1), 0),
                                   decks, 1)} :
       /\ after # state.game
       /\ state' = [state EXCEPT !.game = after]
       /\ last' = [action |-> "PLACE_BID", playerId |-> 0, cardId |-> NullId]
       /\ UNCHANGED decks

\* a pending timer fires: its callback acts on the state object of the
\* effect that set it, in place
AITimerFires ==
  /\ IsAIState(state)
  /\ \E t \in state.timers :
       \E numBidCards \in 1..MaxBidCards :
         \E bidCardIds \in BidSelections(Hand(state.game, t.playerId), numBidCards) :
         /\ state' = [state EXCEPT
                        !.game = IF t.object = state.object
                                 THEN TimerCallback(@, t.playerId, bidCardIds, decks)
                                 ELSE @,
                        !.timers = @ \ {t}]
         /\ last' = [action |-> "aiMoveTimeout", playerId |-> t.playerId,
                     cardId |-> NullId]
         /\ UNCHANGED decks

InitAI ==
  /\ state = [game |-> NNcreateInitialState(MinPlayers),
              object |-> 0,
              timers |-> EffectTimers(NNcreateInitialState(MinPlayers), 0)]
  /\ decks = 0
  /\ last = NoAction

NextAI ==
  \/ AISelectGame
  \/ AIStartNextRound
  \/ AIClickCard
  \/ AIHumanBid
  \/ AITimerFires

SpecAI == InitAI /\ [][NextAI]_vars

----------------------------------------------------------------------------
(* dealCards on its own: a deck, a number of players and a number of cards *)
(* per player are drawn, then the deal is computed                         *)

\* largest number of cards per player of a drawn deal
DealMaxCardsPerPlayer == 3

\* number of orders in which a drawn deck is shuffled
DealShuffles == 3

\* maxPlayers of the Ninety-Nine variant
NNDeclaredMaxPlayers == 5

\* the drawn decks: the first k cards of a shuffled Ninety-Nine deck
DealDecks ==
  {SubSeq(createNinetyNineDeck(0, sh), 1, k) :
     sh \in 1..DealShuffles, k \in 0..(NumSuits * NNNumRanks)}

IsDealState(s) == "dealt" \in DOMAIN s

InitDeal ==
  /\ \E deck \in DealDecks, n \in MinPlayers..NNDeclaredMaxPlayers,
        c \in 1..DealMaxCardsPerPlayer :
       state = [deck |-> deck, numPlayers |-> n, cardsPerPlayer |-> c,
                dealt |-> FALSE,
                result |-> [hands |-> [j \in 0..(n - 1) |-> <<>>],
                            remainingDeck |-> deck,
                            turnupCard |-> NullId]]
  /\ decks = 0
  /\ last = NoAction

\* the call of dealCards by a round setup
DealApply ==
  /\ IsDealState(state)
  /\ ~state.dealt
  /\ state' = [state EXCEPT
                 !.dealt = TRUE,
                 !.result = dealCards(state.deck, state.numPlayers,
                                      state.cardsPerPlayer)]
  /\ UNCHANGED <<decks, last>>

NextDeal == DealApply

SpecDeal == InitDeal /\ [][NextDeal]_vars

----------------------------------------------------------------------------
(* Properties *)

RECURSIVE SumSeq(_)
SumSeq(q) == IF Len(q) = 0 THEN 0 ELSE q[1] + SumSeq(Tail(q))

Occurrences(q, id) == Cardinality({i \in 1..Len(q) : q[i] = id})

\* the number of places in the containers of s that hold card id: the deck,
\* the turnup, the trick slots, the hands, the bid lists, the archived tricks
ContainerCount(s, id) ==
  Occurrences(s.deckIds, id)
  + (IF s.turnupCardId = id THEN 1 ELSE 0)
  + Occurrences(s.currentTrickCardIds, id)
  + SumSeq([i \in 1..s.numPlayers |->
              Occurrences(Hand(s, i - 1), id)
              + Occurrences(s.players[i - 1].bidCardIds, id)])
  + SumSeq([i \in 1..Len(s.lastTricks) |->
              Occurrences(s.lastTricks[i].cardIds, id)])

\* the cards of the deck the slice dealt last
SliceCurrentDeal == SeqToSet(DeckOf(decks - 1, NumRanks))

\* C1: while bids are taken or tricks are played in a game of the slice with
\* a supported number of players, every card of the current deal is in
\* exactly one container (deck, turnup, trick slot, hand, bid list, archived
\* trick)
CardInExactlyOneContainer ==
  (/\ decks > 0
   /\ state.numPlayers >= MinPlayers
   /\ state.gamePhase \in {"bidding", "playing"})
  => \A id \in SliceCurrentDeal : ContainerCount(state, id) = 1

PlayActions == {"PLAY_CARD", "playCard"}

\* the step is a play that took the named card out of the player's hand
PlayApplied ==
  /\ state' # state
  /\ last'.action \in PlayActions
  /\ last'.playerId \in Seats(state)
  /\ HandIncludes(state, last'.playerId, last'.cardId)
  /\ ~HandIncludes(state', last'.playerId, last'.cardId)

\* the trick slots of the step's first state with the played card put in
SlotsWithPlay ==
  SetSlot(state.currentTrickCardIds, last'.playerId, last'.cardId)

\* the step cleared the slots and archived the trick with its winner (the
\* slice's round rollover clears the archive again in the same step)
TrickResolvedInStep ==
  /\ \A i \in 1..Len(state'.currentTrickCardIds) :
       state'.currentTrickCardIds[i] = NullId
  /\ \/ /\ Len(state'.lastTricks) = Len(state.lastTricks) + 1
        /\ state'.lastTricks[Len(state'.lastTricks)].cardIds = SlotsWithPlay
        /\ state'.lastTricks[Len(state'.lastTricks)].winnerId \in Seats(state)
        /\ state'.tricksPlayed = state.tricksPlayed + 1
     \/ /\ IsSliceState(state)
        /\ state'.roundNumber = state.roundNumber + 1
        /\ state'.gamePhase = "dealing"

OneSlotPerPlayer ==
  state.numPlayers >= MinPlayers
  => Len(state.currentTrickCardIds) = state.numPlayers

TrickSeats == 1..Len(state.trick)

TrumpPlayed == \E i \in TrickSeats : state.trick[i].suit = state.trumpSuit

LeadSuit == state.trick[state.leader + 1].suit

WinningCard == state.trick[state.winnerIndex + 1]

\* C4: a complete trick without a trump card goes to the highest card of
\* the suit that was led, whichever seat led
HighestOfLeadSuitWins ==
  (state.resolved /\ ~TrumpPlayed)
  => /\ WinningCard.suit = LeadSuit
     /\ \A i \in TrickSeats :
          state.trick[i].suit = LeadSuit
          => getCardValue(state.trick[i].rank) <= getCardValue(WinningCard.rank)

\* C5: a complete trick with a trump card goes to the highest trump card
HighestTrumpWins ==
  (state.resolved /\ TrumpPlayed)
  => /\ WinningCard.suit = state.trumpSuit
     /\ \A i \in TrickSeats :
          state.trick[i].suit = state.trumpSuit
          => getCardValue(state.trick[i].rank) <= getCardValue(WinningCard.rank)

\* a resolved trick whose lead is not trump, with two trump cards of which
\* the later is the higher, and a card of another suit that outranks both
LowTrumpBeatsHighCards ==
  /\ state.resolved
  /\ LeadSuit # state.trumpSuit
  /\ state.winnerIndex > state.leader
  /\ Cardinality({i \in TrickSeats : state.trick[i].suit = state.trumpSuit}) = 2
  /\ \E i \in TrickSeats :
       /\ state.trick[i].suit # state.trumpSuit
       /\ getCardValue(state.trick[i].rank) > getCardValue(WinningCard.rank)
  /\ \E i \in TrickSeats :
       /\ i < state.winnerIndex + 1
       /\ state.trick[i].suit = state.trumpSuit

\* the seats whose trick slot is occupied
OccupiedSlots(s) ==
  {i \in 1..Len(s.currentTrickCardIds) :
     s.currentTrickCardIds[i] \notin {NullId, HoleId}}

\* the variant's answer to a play of card c by seat p
NNPlay(p, c) ==
  NNperformAction(state, "PLAY_CARD", p, Payload(c, <<>>, p), decks, 1)

HoldsSuit(s, p, suit) ==
  \E i \in 1..Len(Hand(s, p)) : CardOf(Hand(s, p)[i]).suit = suit

\* C6: when one card lies in the variant's trick, the player to act who
\* holds a card of that card's suit cannot play a card of another suit: the
\* play is rejected and changes nothing
FollowSuitEnforced ==
  (/\ IsVariantState(state)
   /\ Cardinality(OccupiedSlots(state)) = 1)
  => \A f \in OccupiedSlots(state) :
       LET p == state.currentPlayerIndex
           leadSuit == CardOf(state.currentTrickCardIds[f]).suit
       IN  \A i \in 1..Len(Hand(state, p)) :
             (/\ CardOf(Hand(state, p)[i]).suit # leadSuit
              /\ HoldsSuit(state, p, leadSuit))
             => NNPlay(p, Hand(state, p)[i]) = state

\* C7: in the slice a play of a card of the own hand by a seat that is not
\* the current player changes no hand, bid list, trick slot or turn pointer
OutOfTurnPlayRejected ==
  (IsSliceState(state) /\ state.numPlayers >= MinPlayers)
  => \A p \in Seats(state) \ {state.currentPlayerIndex} :
       \A i \in 1..Len(Hand(state, p)) :
         LET after == playCard(state, p, Hand(state, p)[i])
         IN  /\ after.players = state.players
             /\ after.currentTrickCardIds = state.currentTrickCardIds
             /\ after.currentPlayerIndex = state.currentPlayerIndex

\* C8: while the variant is in phase 'bidding' a play of any card by any
\* player leaves the hands and the trick unchanged
PlayInBiddingChangesNothing ==
  (IsVariantState(state) /\ state.gamePhase = "bidding")
  => \A p \in Seats(state) :
       \A c \in CardInputs(state, p) :
         /\ NNPlay(p, c).players = state.players
         /\ NNPlay(p, c).currentTrickCardIds = state.currentTrickCardIds

\* the cards seat p may name that are not in its hand
ForeignCards(s, p) ==
  CardInputs(s, p) \ SeqToSet(Hand(s, p))

\* C9: in the slice a play of a card that is not in the acting player's
\* hand records a VALIDATION error and changes nothing else, and the same
\* play repeated yields the same state again
ForeignCardPlayRejected ==
  IsSliceState(state)
  => \A p \in Seats(state) :
       \A c \in ForeignCards(state, p) :
         LET after == playCard(state, p, c)
         IN  /\ after.error.type = "VALIDATION"
             /\ after = [state EXCEPT !.error = after.error]
             /\ playCard(after, p, c) = after

\* a seat has just been refused a card of another container while tricks
\* are played
ForeignCardJustRefused ==
  /\ IsSliceState(state)
  /\ state.gamePhase = "playing"
  /\ last.action = "playCard"
  /\ last.playerId \in Seats(state)
  /\ last.cardId \in SliceCurrentDeal
  /\ last.cardId \in ForeignCards(state, last.playerId)
  /\ state.error.type = "VALIDATION"
  /\ state.error.message = "Card not in player hand"

ErrorTypes == {"VALIDATION", "GAME_STATE", "NETWORK", "UNKNOWN"}

\* C10: while tricks are played in the variant, a play that validateAction
\* refuses leaves a typed error in the state performAction returns
RejectedPlayRecordsError ==
  (IsVariantState(state) /\ state.gamePhase = "playing")
  => \A p \in Seats(state) :
       \A c \in CardInputs(state, p) :
         ~NNvalidateAction(state, "PLAY_CARD", p, Payload(c, <<>>, p))
         => NNPlay(p, c).error.type \in ErrorTypes

\* the variant's answer to a bid of the cards cs by seat p
NNBid(p, cs) ==
  NNperformAction(state, "PLACE_BID", p, Payload(NullId, cs, p), decks, 1)

\* C11: while the variant's phase is not 'bidding', a bid of any player
\* changes no hand, no bid list, no turn pointer and no phase
BidOutsideBiddingChangesNothing ==
  (IsVariantState(state) /\ state.gamePhase # "bidding")
  => \A p \in Seats(state) :
       \A cs \in CardListInputs(state, p) :
         /\ NNBid(p, cs).players = state.players
         /\ NNBid(p, cs).currentPlayerIndex = state.currentPlayerIndex
         /\ NNBid(p, cs).gamePhase = state.gamePhase

\* placeBid took the cards cs of seat p as its bid: they left the hand and are
\* the bid list
BidApplied(s, after, p, cs) ==
  /\ after.players[p].bidCardIds = cs
  /\ after.players[p].handIds = Without(Hand(s, p), SeqToSet(cs))
  /\ after.lastAction = "placeBid"
  /\ after.error = s.error

\* C12: a bid the slice accepts while bids are taken consists of 1 to 3
\* cards of the bidder's hand
AcceptedBidHasOneToThreeCards ==
  (/\ IsSliceState(state)
   /\ state.numPlayers >= MinPlayers
   /\ state.gamePhase = "bidding")
  => \A p \in Seats(state) :
       \A cs \in CardListInputs(state, p) :
         BidApplied(state, placeBid(state, p, cs), p, cs)
         => /\ Len(cs) >= 1
            /\ Len(cs) <= MaxBidCards
            /\ \A i \in 1..Len(cs) : cs[i] \in SeqToSet(Hand(state, p))

EveryPlayerHasBid(s) == \A p \in Seats(s) : Len(s.players[p].bidCardIds) > 0

\* C13: while bids are taken in the slice no action, the score calculation
\* included, takes the phase to 'playing' unless every player has a
\* non-empty bid list afterwards
PlayingOnlyAfterEveryBid ==
  (/\ IsSliceState(state)
   /\ state.numPlayers >= MinPlayers
   /\ state.gamePhase = "bidding")
  => /\ \A p \in Seats(state) :
          \A cs \in CardListInputs(state, p) :
            placeBid(state, p, cs).gamePhase = "playing"
            => EveryPlayerHasBid(placeBid(state, p, cs))
     /\ calculateScores(state).gamePhase = "playing"
        => EveryPlayerHasBid(calculateScores(state))

RevealActions == {"REVEAL_BID", "revealBid"}

\* the step is a reveal of an existing player that was applied
RevealApplied ==
  /\ state' # state
  /\ last'.action \in RevealActions
  /\ last'.playerId \in Seats(state)

\* what a player owns and has earned, without the flag of the reveal
Holdings(s, p) ==
  [handIds |-> s.players[p].handIds,
   bidCardIds |-> s.players[p].bidCardIds,
   tricksWon |-> s.players[p].tricksWon,
   score |-> s.players[p].score]

\* C14: a reveal sets the acting player's revealBid flag and changes no
\* hand, bid list, deck, turnup, trick slot, turn pointer, phase, counter,
\* score or flag of another player
RevealChangesOnlyTheFlag ==
  [][RevealApplied =>
       /\ state'.players[last'.playerId].revealBid
       /\ \A p \in Seats(state) : Holdings(state', p) = Holdings(state, p)
       /\ \A p \in Seats(state) \ {last'.playerId} :
            state'.players[p].revealBid = state.players[p].revealBid
       /\ state'.numPlayers = state.numPlayers
       /\ state'.deckIds = state.deckIds
       /\ state'.turnupCardId = state.turnupCardId
       /\ state'.cards = state.cards
       /\ state'.currentTrickCardIds = state.currentTrickCardIds
       /\ state'.currentTrickSuit = state.currentTrickSuit
       /\ state'.currentTrickLeader = state.currentTrickLeader
       /\ state'.currentPlayerIndex = state.currentPlayerIndex
       /\ state'.gamePhase = state.gamePhase
       /\ state'.tricksPlayed = state.tricksPlayed
       /\ state'.roundNumber = state.roundNumber
       /\ state'.lastTricks = state.lastTricks]_vars

\* a player that holds cards and has bid has just revealed its bid
BidJustRevealed ==
  /\ last.action \in RevealActions
  /\ last.playerId \in Seats(state)
  /\ state.players[last.playerId].revealBid
  /\ Len(state.players[last.playerId].bidCardIds) > 0
  /\ Len(Hand(state, last.playerId)) > 0
  /\ state.gamePhase = "playing"

\* the step is a play of the variant that ended the round
RoundEnded ==
  /\ IsVariantState(state)
  /\ last'.action = "PLAY_CARD"
  /\ state.gamePhase # "scoring"
  /\ state'.gamePhase = "scoring"

\* the play that ends a round adds to every player's score 10 for each
\* trick won in the round and 20 more if the player's bid list is not empty
RoundScoreStep ==
  RoundEnded =>
    \A p \in Seats(state) :
      state'.players[p].score =
        state.players[p].score
        + state'.players[p].tricksWon * 10
        + (IF Len(state'.players[p].bidCardIds) > 0 THEN 20 ELSE 0)

ScoreNeverDecreases ==
  [][(/\ IsSliceState(state)
      /\ state.gameStarted
      /\ last'.action # "initializeGame")
     => \A p \in Seats(state) :
          state'.players[p].score >= state.players[p].score]_vars

\* C17: once a Ninety-Nine round is in 'scoring', the score calculation
\* invoked twice leaves the scores the first invocation left
ScoreCalculationIdempotent ==
  (IsVariantState(state) /\ state.gamePhase = "scoring")
  => \A p \in Seats(state) :
       NNupdateScores(NNupdateScores(state)).players[p].score
         = NNupdateScores(state).players[p].score

\* C18: when every player of a Ninety-Nine game of 3 has bid and the phase
\* is 'scoring', tricksPlayed equals gameSettings.maxTricks and every score
\* is a number that is not negative
ScoringExactlyAtMaxTricks ==
  (/\ IsVariantState(state)
   /\ state.numPlayers = 3
   /\ EveryPlayerHasBid(state)
   /\ state.gamePhase = "scoring")
  => /\ state.tricksPlayed = state.gameSettings.maxTricks
     /\ \A p \in Seats(state) : state.players[p].score \in Nat

\* the steps of the phase order: dealing, bidding, playing, scoring, then the
\* first phase of the next round
PhaseOrder ==
  {<<"dealing", "bidding">>, <<"bidding", "playing">>,
   <<"playing", "scoring">>, <<"scoring", "dealing">>,
   <<"scoring", "bidding">>}

\* C19: every step of the slice that changes gamePhase follows the phase order
PhaseFollowsOrder ==
  [][(IsSliceState(state) /\ state'.gamePhase # state.gamePhase)
     => <<state.gamePhase, state'.gamePhase>> \in PhaseOrder]_vars

\* the state with the cumulative score of player p set to v
WithScore(s, p, v) == [s EXCEPT !.players[p].score = v]

\* the ids of the cards of deck number g
DeckIds(g) == (g * IdsPerDeck + 1)..((g + 1) * IdsPerDeck)

\* what START_NEXT_ROUND makes of state s when the next deck is number g
NextRoundContract(s, g) ==
  \A sh \in Shuffles :
    LET after == NNSTART_NEXT_ROUND(s, g, sh)
    IN IF \/ s.roundNumber >= s.gameSettings.maxRounds
          \/ \E p \in Seats(s) : s.players[p].score >= ScoreLimit
       THEN after = s
       ELSE /\ after.roundNumber = s.roundNumber + 1
            /\ after.roundNumber <= after.gameSettings.maxRounds
            /\ \A p \in Seats(s) :
                 /\ Len(Hand(after, p)) = CardsPerPlayer
                 /\ SeqToSet(Hand(after, p)) \subseteq DeckIds(g) \ s.cards
                 /\ \A q \in Seats(s) \ {p} :
                      SeqToSet(Hand(after, p)) \cap SeqToSet(Hand(after, q)) = {}
                 /\ after.players[p].bidCardIds = <<>>
                 /\ after.players[p].revealBid = FALSE
                 /\ after.players[p].tricksWon = 0
                 /\ after.players[p].score = s.players[p].score

NewRecord == state'.lastTricks[Len(state'.lastTricks)]

\* the suits of the cards of a slot array
SuitsOf(slots) ==
  {CardOf(slots[i]).suit : i \in {j \in 1..Len(slots) : slots[j] > NullId}}

\* the step's play completed a trick of the slice without ending a round
\* that is followed by another
SliceTrickCompleted ==
  /\ IsSliceState(state)
  /\ PlayApplied
  /\ AllPlayed(SlotsWithPlay)
  /\ state'.roundNumber = state.roundNumber

\* C21: a play of the slice that completes a trick appends exactly one record
\* to lastTricks, with the round number, the number of tricks completed in
\* the round plus one, the snapshot of the slots, the winner that leads the
\* next trick, and as lead suit the suit of a card of the trick
TrickArchivedWithLeadSuit ==
  [][SliceTrickCompleted
     => /\ Len(state'.lastTricks) = Len(state.lastTricks) + 1
        /\ SubSeq(state'.lastTricks, 1, Len(state.lastTricks)) = state.lastTricks
        /\ NewRecord.roundNumber = state.roundNumber
        /\ NewRecord.trickNumber = state.tricksPlayed + 1
        /\ NewRecord.cardIds = SlotsWithPlay
        /\ NewRecord.winnerId = state'.currentTrickLeader
        /\ NewRecord.leadSuit \in SuitsOf(SlotsWithPlay)]_vars

\* the step credited the trick to seat w and made w lead the next trick
TrickCreditedTo(w) ==
  /\ \A p \in Seats(state) :
       state'.players[p].tricksWon
         = state.players[p].tricksWon + (IF p = w THEN 1 ELSE 0)
  /\ state'.tricksPlayed = state.tricksPlayed + 1
  /\ \A i \in 1..Len(state'.currentTrickCardIds) :
       state'.currentTrickCardIds[i] = NullId
  /\ state'.currentTrickLeader = w
  /\ state'.currentPlayerIndex = w

\* C22: a play that completes the trick adds 1 to the tricksWon of one
\* player, the winner, and to tricksPlayed, changes no other tricksWon, clears
\* every slot and makes the winner the leader and the current player; a play
\* that does not complete the trick passes the turn to the next seat
TrickCreditsWinner ==
  [][PlayApplied
     => IF AllPlayed(SlotsWithPlay)
        THEN \E w \in Seats(state) : TrickCreditedTo(w)
        ELSE state'.currentPlayerIndex
               = (state.currentPlayerIndex + 1) % state.numPlayers]_vars

\* the number of cards of the deck createDeck builds
SliceDeckSize == NumSuits * NumRanks

\* C23: dealCards dispatched in phase 'dealing' with N players (at least 3)
\* gives every player cardsPerPlayer cards, leaves the deck list with the
\* size of the deck less N times cardsPerPlayer cards, and sets the phase
\* to 'bidding'
DealLeavesRestOfDeck ==
  (IsSliceState(state) /\ state.numPlayers >= MinPlayers)
  => \A sh \in Shuffles :
       LET after == SliceDealCards(setGamePhase(state, "dealing"), decks, sh)
       IN /\ \A p \in Seats(state) : Len(Hand(after, p)) = SliceCardsPerPlayer
          /\ Len(after.deckIds)
               = SliceDeckSize - SliceCardsPerPlayer * state.numPlayers
          /\ after.gamePhase = "bidding"

\* the cards a deal handed out or kept, with the number of times each occurs
DealtCount(r, n, id) ==
  Occurrences(r.remainingDeck, id)
  + (IF r.turnupCard = id THEN 1 ELSE 0)
  + SumSeq([j \in 1..n |-> Occurrences(r.hands[j - 1], id)])

\* the deal is one of the Ninety-Nine variant: its whole deck, its number of
\* cards per player, a number of players it declares
IsVariantDeal(s) ==
  /\ Len(s.deck) = NumSuits * NNNumRanks
  /\ s.cardsPerPlayer = CardsPerPlayer
  /\ s.numPlayers \in MinPlayers..NNDeclaredMaxPlayers

\* C24: a deal of the variant makes one hand per player, every hand of
\* exactly cardsPerPlayer cards, and every card of the deck is in exactly one
\* of the remaining deck, the hands and the turnup card, which hold no other
\* card
DealExactAndConserving ==
  (IsDealState(state) /\ state.dealt /\ IsVariantDeal(state))
  => /\ DOMAIN state.result.hands = 0..(state.numPlayers - 1)
     /\ \A j \in 0..(state.numPlayers - 1) :
          Len(state.result.hands[j]) = state.cardsPerPlayer
     /\ \A id \in 1..IdsPerDeck :
          DealtCount(state.result, state.numPlayers, id)
            = Occurrences(state.deck, id)

\* the deal asks for more cards than the deck holds
DeckTooSmall(s) == s.numPlayers * s.cardsPerPlayer + 1 > Len(s.deck)

\* C25: a deal that asks for more cards than the deck holds, the turnup card
\* counted, hands out no cards and takes none off the deck
ShortDeckDealsNothing ==
  (IsDealState(state) /\ state.dealt /\ DeckTooSmall(state))
  => /\ \A j \in 0..(state.numPlayers - 1) : state.result.hands[j] = <<>>
     /\ state.result.remainingDeck = state.deck
     /\ state.result.turnupCard = NullId

\* the archived tricks of the current round that seat p won
TricksWonBy(s, p) ==
  {i \in 1..Len(s.lastTricks) : /\ s.lastTricks[i].roundNumber = s.roundNumber
                                /\ s.lastTricks[i].winnerId = p}

\* the number of hearts in the tricks seat p won in the current round
HeartsTaken(s, p) ==
  SumSeq([i \in 1..Len(s.lastTricks) |->
            IF i \in TricksWonBy(s, p) THEN HeartsIn(s.lastTricks[i].cardIds)
            ELSE 0])

QueenTaken(s, p) == \E i \in TricksWonBy(s, p) : QueenIn(s.lastTricks[i].cardIds)

TookEveryPointCard(s, p) == HeartsTaken(s, p) = AllHearts /\ QueenTaken(s, p)

\* the round score of seat p by the rules of Hearts
HeartsRoundScore(s, p) ==
  IF \E q \in Seats(s) : TookEveryPointCard(s, q)
  THEN IF TookEveryPointCard(s, p) THEN 0 ELSE MoonPoints
  ELSE HeartsTaken(s, p) + (IF QueenTaken(s, p) THEN QueenPoints ELSE 0)

HeartPlayedInRound(s) ==
  \/ "HEARTS" \in SuitsOf(s.currentTrickCardIds)
  \/ \E i \in 1..Len(s.lastTricks) :
       /\ s.lastTricks[i].roundNumber = s.roundNumber
       /\ HeartsIn(s.lastTricks[i].cardIds) > 0

NoCardInTrick(s) ==
  \A i \in 1..Len(s.currentTrickCardIds) : s.currentTrickCardIds[i] = NullId

\* C27: heartsPlayed is true exactly when a heart has been played in the
\* current round, and a heart is accepted as the first card of a trick only
\* if a heart has been played in the round or the hand holds hearts only
HeartsLedOnlyWhenBroken ==
  IsHeartsState(state)
  => /\ state.heartsPlayed <=> HeartPlayedInRound(state)
     /\ \A p \in Seats(state) :
          \A c \in HCardInputs(state, p) :
            (/\ NoCardInTrick(state)
             /\ CardOf(c).suit = "HEARTS"
             /\ HisValidPlay(state, c, p))
            => \/ HeartPlayedInRound(state)
               \/ \A k \in 1..Len(Hand(state, p)) :
                    CardOf(Hand(state, p)[k]).suit = "HEARTS"

\* a heart has just been led by a player that holds another suit as well,
\* after a heart was played in an earlier trick of the round
HeartJustLed ==
  /\ IsHeartsState(state)
  /\ last.action = "PLAY_CARD"
  /\ CardOf(last.cardId).suit = "HEARTS"
  /\ state.currentTrickLeader = last.playerId
  /\ \A i \in 1..Len(state.currentTrickCardIds) :
       state.currentTrickCardIds[i]
         = (IF i = last.playerId + 1 THEN last.cardId ELSE NullId)
  /\ \E k \in 1..Len(Hand(state, last.playerId)) :
       CardOf(Hand(state, last.playerId)[k]).suit # "HEARTS"
  /\ \E i \in 1..Len(state.lastTricks) :
       /\ state.lastTricks[i].roundNumber = state.roundNumber
       /\ HeartsIn(state.lastTricks[i].cardIds) > 0

\* C28: at most one timer for the turn of a computer player is pending, and
\* a pending timer was set for the state object the provider holds and for
\* the player whose turn it is
PendingTimerIsCurrent ==
  IsAIState(state)
  => /\ Cardinality(state.timers) <= 1
     /\ \A t \in state.timers :
          /\ t.object = state.object
          /\ t.playerId = state.game.currentPlayerIndex

\* C29: a game initialized for no players at all ends with an error of type
\* NETWORK in the state's error slot and is not marked as started
InitializeWithoutPlayersFails ==
  [][(IsSliceState(state) /\ last'.action = "initializeGame" /\ last' # last
      /\ state'.numPlayers = 0)
     => /\ state'.error.type = "NETWORK"
        /\ ~state'.gameStarted]_vars

\* the variant's answer to the triple (action, p, payload) with a payload
\* that names the cards only
NNTriple(action, p, cardId, cardIds) ==
  NNperformAction(state, action, p, Payload(cardId, cardIds, NoPlayer), decks, 1)

\* C30: in the variant, a play or a bid dispatched as (action, playerId,
\* payload) with a payload of the cards only, that validateAction accepts
\* for playerId, is applied to that player: the card played leaves the
\* player's hand for the trick, the cards bid become the player's bid
ValidatedActionAppliedToPlayer ==
  IsVariantState(state)
  => \A p \in Seats(state) :
       /\ \A c \in CardInputs(state, p) :
            NNvalidateAction(state, "PLAY_CARD", p, Payload(c, <<>>, NoPlayer))
            => /\ NNTriple("PLAY_CARD", p, c, <<>>) # state
               /\ c \notin SeqToSet(Hand(NNTriple("PLAY_CARD", p, c, <<>>), p))
       /\ \A cs \in CardListInputs(state, p) :
            NNvalidateAction(state, "PLACE_BID", p, Payload(NullId, cs, NoPlayer))
            => NNTriple("PLACE_BID", p, NullId, cs).players[p].bidCardIds = cs

\* C31: in the variant, isGameOver holds only when some player has reached
\* the score limit or the configured rounds have been played, never while
\* tricks are played, and it holds in every state in which START_NEXT_ROUND
\* starts no other round
GameOverWhereNoRoundStarts ==
  IsVariantState(state)
  => /\ NNisGameOver(state)
        => \/ \E p \in Seats(state) : state.players[p].score >= ScoreLimit
           \/ state.roundNumber >= state.gameSettings.maxRounds
     /\ NNisGameOver(state) => state.gamePhase # "playing"
     /\ NNSTART_NEXT_ROUND(state, decks, 1) = state => NNisGameOver(state)

\* the seats whose slot of the current trick holds a card
SeatsPlayed(s) == {i - 1 : i \in OccupiedSlots(s)}

\* C32: while tricks are played in the variant, the slots that hold a card
\* are those of the k seats from the trick leader on in cyclic order, k less
\* than the number of players, and the current player is the k-th seat
\* after the leader
TrickFilledFromLeader ==
  (IsVariantState(state) /\ state.gamePhase = "playing")
  => LET n == state.numPlayers
         k == Cardinality(SeatsPlayed(state))
     IN /\ k < n
        /\ SeatsPlayed(state)
             = {(state.currentTrickLeader + j) % n : j \in 0..(k - 1)}
        /\ state.currentPlayerIndex = (state.currentTrickLeader + k) % n

\* C33: while the tricks of a Hearts round are played, the current player
\* holds a card that isValidPlay accepts
HeartsPlayCanContinue ==
  (IsHeartsState(state) /\ state.gamePhase = "playing")
  => \E c \in SeqToSet(Hand(state, state.currentPlayerIndex)) :
       HisValidPlay(state, c, state.currentPlayerIndex)

\* the actions of the variant that validateAction knows or lets pass
NNActionNames ==
  {"PLAY_CARD", "PLACE_BID", "DECLARE", "REVEAL_BID", "START_NEXT_ROUND"}

\* C34: in the variant, from the first deal on, an action that
\* validateAction accepts for a player is one that availableActions lists
\* for that player in the same state
ValidActionIsOffered ==
  (IsVariantState(state) /\ state.gamePhase # "dealing")
  => \A p \in Seats(state) :
       \A action \in NNActionNames :
         \A c \in CardInputs(state, p) \cup {NullId} :
           \A cs \in CardListInputs(state, p) :
             NNvalidateAction(state, action, p, Payload(c, cs, p))
             => action \in NNavailableActions(state, p)

\* C35: the tricks won by all players together are as many as tricksPlayed,
\* the tricks completed in the round
TricksWonSumToTricksPlayed ==
  TotalTricksWon(state, state.numPlayers) = state.tricksPlayed

\* the card ids the id lists of a state of the slice or of the variant hold
ListedCardIds(s) ==
  UNION {SeqToSet(Hand(s, p)) \cup SeqToSet(s.players[p].bidCardIds) : p \in Seats(s)}
  \cup SeqToSet(s.deckIds)
  \cup (SeqToSet(s.currentTrickCardIds) \ {NullId, HoleId})
  \cup ({s.turnupCardId} \ {NullId})

\* C36: once cards are dealt, every card id in a hand, a bid, the deck, the
\* trick or the turnup is the id of a card record of the state
ListedCardsAreRecorded ==
  ((IsSliceState(state) \/ IsVariantState(state)) /\ ListedCardIds(state) # {})
  => ListedCardIds(state) \subseteq state.cards

\* the card lists a pass of seat p may name: the first cards of the own
\* hand, three or fewer, and the first three cards of another hand
PassInputs(s, p) ==
  {SubSeq(Hand(s, q), 1, PassCount) :
     q \in {r \in Seats(s) : Len(Hand(s, r)) >= PassCount}}
  \cup {SubSeq(Hand(s, p), 1, k) :
          k \in {j \in {PassCount - 1} : j <= Len(Hand(s, p))}}

\* the cards of all hands
AllHands(s) == UNION {SeqToSet(Hand(s, p)) : p \in Seats(s)}

\* Hearts' answer to a pass of the cards cs by seat p
HPass(p, cs) ==
  HperformAction(state, "PASS_CARDS", p, Payload(NullId, cs, NoPlayer), decks, 1)

\* C37: a Hearts pass that changes the state names three cards of the hand
\* of the passing player; when it is the last selection, every hand has
\* afterwards as many cards as before, the hands together hold the same
\* cards, no card is in two hands, no selection is left and tricks are
\* played
PassExchangesHandCards ==
  (IsHeartsState(state) /\ state.gamePhase = "passing")
  => \A p \in Seats(state) :
       \A cs \in PassInputs(state, p) :
         HPass(p, cs) # state
         => /\ Len(cs) = PassCount
            /\ SeqToSet(cs) \subseteq SeqToSet(Hand(state, p))
            /\ HPass(p, cs).gamePhase = "playing"
               => /\ \A q \in Seats(state) :
                       /\ Len(Hand(HPass(p, cs), q)) = Len(Hand(state, q))
                       /\ HPass(p, cs).players[q].passIds = <<>>
                  /\ AllHands(HPass(p, cs)) = AllHands(state)
                  /\ \A q, r \in Seats(state) :
                       q # r => SeqToSet(Hand(HPass(p, cs), q))
                                  \cap SeqToSet(Hand(HPass(p, cs), r)) = {}

\* C38: when a play completes a trick of a variant, the hook getTrickWinner,
\* given the cards and the lead suit of the trick, answers the id of the
\* player the step credits with the trick
TrickWinnerHookAgrees ==
  [][((IsVariantState(state) \/ IsHeartsState(state))
      /\ PlayApplied /\ AllPlayed(SlotsWithPlay)
      /\ Len(state'.lastTricks) = Len(state.lastTricks) + 1)
     => IF IsHeartsState(state)
        THEN HgetTrickWinner(state, TrickCards(state, SlotsWithPlay),
                             NewRecord.leadSuit)
               = PlayerId(NewRecord.winnerId)
        ELSE NNgetTrickWinner(state, TrickCards(state, SlotsWithPlay),
                              NewRecord.leadSuit)
               = PlayerId(NewRecord.winnerId)]_vars

\* C39: when a round of Hearts is over, scoring.calculateScore answers for
\* every player the round score that PLAY_CARD has added to the player's
\* total
ScoringHookAgreesWithRoundEnd ==
  (IsHeartsState(state) /\ state.gamePhase = "scoring")
  => \A p \in Seats(state) :
       HcalculateScore(state, p) = state.players[p].roundScore

\* Hearts' answer to a play of card c by seat p
HPlay(p, c) ==
  HperformAction(state, "PLAY_CARD", p, Payload(c, <<>>, NoPlayer), decks, 1)

\* C40: in Hearts, validateAction for PLAY_CARD returns, without an
\* exception, what isValidPlay says of the card and the player, and
\* performAction applies the play when isValidPlay holds and returns the
\* state as it is when it does not
HeartsPlayFollowsIsValidPlay ==
  (IsHeartsState(state) /\ state.gamePhase = "playing")
  => \A p \in Seats(state) :
       \A c \in HCardInputs(state, p) :
         /\ ~HvalidateActionThrows("PLAY_CARD")
         /\ HvalidateAction(state, "PLAY_CARD", p, Payload(c, <<>>, NoPlayer))
              = HisValidPlay(state, c, p)
         /\ HPlay(p, c) = IF HisValidPlay(state, c, p)
                          THEN HPLAY_CARD(state, Payload(c, <<>>, p))
                          ELSE state

============================================================================
